---- MODULE Spec2Model ----
(***************************************************************************)
(* Image upload servers of pinootto/upload-image.                           *)
(*                                                                         *)
(*   src/bin/websocket-server.rs  one task per websocket connection        *)
(*   src/bin/http-server.rs       POST /upload/:serial_number              *)
(*   src/main.rs                  POST /upload (server-chosen file name)    *)
(*                                                                         *)
(* A string is a sequence of symbols.  A symbol is one character ("/",     *)
(* ".", "a", ...) or an opaque run of ordinary characters that holds no    *)
(* separator and is not a dot name ("uploads", "aaa-latest.jpg").          *)
(* The filesystem is a set of directories and a map from file paths to     *)
(* contents; a resolved path is the sequence of names from the filesystem  *)
(* root.  Every await point of the code is one action.                     *)
(***************************************************************************)
EXTENDS Integers, Sequences, FiniteSets, TLC

(***************************************************************************)
(* Bounds of the model.                                                    *)
(***************************************************************************)
\* longest binary payload / request body, in bytes
MaxPayloadLen == 2
\* the wall clock runs over the seconds 0..MaxTime
MaxTime == 1
\* frames delivered to the websocket sessions, all sessions together
MaxFrames == 3
\* I/O faults the environment injects in one behaviour
MaxFaults == 1
\* bytes moved by one write of a copy (tokio::io::copy moves a buffer at a
\* time; the buffer is scaled down so that a payload takes several writes)
ChunkSize == 1

\* longest string handed to path_is_valid, in symbols
MaxPathLen == 4

Tasks == {1, 2}

\* the payloads of one upload: 0..MaxPayloadLen bytes, every byte the tag of
\* the upload, so that the origin of each byte of a file can be told
Payloads(tag) == {[i \in 1..n |-> tag] : n \in 0..MaxPayloadLen}

(***************************************************************************)
(* Program constants.                                                      *)
(***************************************************************************)
UPLOADS_DIRECTORY == <<"uploads">>
UPLOADS_DIRECTORY_WS == <<"uploads-websocket">>
Undefined == <<"undefined">>
filename_latest == <<"aaa-latest.jpg">>

\* format!("image-{}.jpg", local_time), local_time at second resolution
ImageFilename(t) == <<"image-" \o ToString(t) \o ".jpg">>

\* format!("{}/{}", a, b)
FormatSlash(a, b) == a \o <<"/">> \o b

(***************************************************************************)
(* std::path::Path: components and join, as path_is_valid and the path     *)
(* construction of the handlers use them.                                  *)
(***************************************************************************)
HasRoot(s) == s /= <<>> /\ s[1] = "/"

\* the segments of s between separators (empty segments included)
RECURSIVE Split(_)
Split(s) ==
    IF s = <<>> THEN << <<>> >>
    ELSE LET r == Split(Tail(s))
         IN  IF Head(s) = "/" THEN << <<>> >> \o r
             ELSE << <<Head(s)>> \o Head(r) >> \o Tail(r)

Comp(k, n) == [kind |-> k, name |-> n]

RECURSIVE SegComps(_, _)
SegComps(segs, i) ==
    IF i > Len(segs) THEN <<>>
    ELSE LET seg == segs[i]
             here == IF seg = <<>> THEN <<>>
                     ELSE IF seg = <<".">>
                          THEN (IF i = 1 THEN <<Comp("CurDir", seg)>> ELSE <<>>)
                     ELSE IF seg = <<".", ".">> THEN <<Comp("ParentDir", seg)>>
                     ELSE <<Comp("Normal", seg)>>
         IN  here \o SegComps(segs, i + 1)

\* Path::components(): a leading separator is RootDir, empty segments and
\* inner "." are dropped, a leading "." is CurDir, ".." is ParentDir
Components(s) ==
    (IF HasRoot(s) THEN <<Comp("RootDir", <<"/">>)>> ELSE <<>>) \o SegComps(Split(s), 1)

\* Path::new(base).join(path): an absolute path replaces the base
PathJoin(base, path) ==
    IF HasRoot(path) THEN path ELSE FormatSlash(base, path)

\* a plausible slip: only the first component is looked at
path_is_valid_FirstOnly(path) ==
    LET components == Components(path)
    IN  Len(components) >= 1 /\ components[1].kind = "Normal"

path_is_valid(path) ==
    LET components == Components(path)
    IN  IF Len(components) > 0 /\ components[1].kind /= "Normal"
        THEN FALSE
        ELSE Len(components) = 1

(***************************************************************************)
(* The filesystem, as the tokio::fs calls of the handlers see it.          *)
(***************************************************************************)
\* the working directory of the server process
Cwd == << <<"srv">> >>

Parent(at) == IF at = <<>> THEN <<>> ELSE SubSeq(at, 1, Len(at) - 1)

\* tokio::fs::create_dir_all: every directory along the path is created when
\* absent; ".." steps to the parent; it fails when a name on the way is a file
RECURSIVE MkdirWalk(_, _, _, _, _)
MkdirWalk(comps, i, at, ds, fnames) ==
    IF i > Len(comps) THEN [ok |-> TRUE, dirs |-> ds]
    ELSE LET c == comps[i]
         IN  CASE c.kind = "RootDir" -> MkdirWalk(comps, i + 1, <<>>, ds, fnames)
               [] c.kind = "CurDir" -> MkdirWalk(comps, i + 1, at, ds, fnames)
               [] c.kind = "ParentDir" -> MkdirWalk(comps, i + 1, Parent(at), ds, fnames)
               [] OTHER ->
                    LET next == Append(at, c.name)
                    IN  IF next \in fnames THEN [ok |-> FALSE, dirs |-> ds]
                        ELSE MkdirWalk(comps, i + 1, next, ds \cup {next}, fnames)

create_dir_all(s, ds, fnames) == MkdirWalk(Components(s), 1, Cwd, ds, fnames)

\* path resolution of open(2): every name before the last is an existing
\* directory, the last one names the file
RECURSIVE FileWalk(_, _, _, _)
FileWalk(comps, i, at, ds) ==
    IF i > Len(comps) THEN [ok |-> FALSE, path |-> <<>>]
    ELSE LET c == comps[i]
         IN  IF i = Len(comps)
             THEN IF c.kind = "Normal" /\ Append(at, c.name) \notin ds
                  THEN [ok |-> TRUE, path |-> Append(at, c.name)]
                  ELSE [ok |-> FALSE, path |-> <<>>]
             ELSE CASE c.kind = "RootDir" -> FileWalk(comps, i + 1, <<>>, ds)
                    [] c.kind = "CurDir" -> FileWalk(comps, i + 1, at, ds)
                    [] c.kind = "ParentDir" -> FileWalk(comps, i + 1, Parent(at), ds)
                    [] OTHER ->
                         IF Append(at, c.name) \in ds
                         THEN FileWalk(comps, i + 1, Append(at, c.name), ds)
                         ELSE [ok |-> FALSE, path |-> <<>>]

ResolveFile(s, ds) == FileWalk(Components(s), 1, Cwd, ds)

Min(a, b) == IF a < b THEN a ELSE b

Zeros(n) == [i \in 1..n |-> 0]

\* write(2) of chunk at offset off: bytes past the end extend the file, a
\* gap between the end and off reads as zeros
WriteAt(content, off, chunk) ==
    LET padded == IF off > Len(content)
                  THEN content \o Zeros(off - Len(content)) ELSE content
    IN  SubSeq(padded, 1, off) \o chunk
            \o SubSeq(padded, off + Len(chunk) + 1, Len(padded))

\* a plausible slip: the file is opened for writing without truncation
FileCreate_NoTruncate(path, fs) ==
    IF path \in DOMAIN fs THEN fs ELSE (path :> <<>>) @@ fs

\* File::create: create or truncate
FileCreate(path, fs) == (path :> <<>>) @@ fs

(***************************************************************************)
(* Inputs.                                                                 *)
(***************************************************************************)
\* device identifiers a peer may send: plain names, the placeholder text,
\* and strings that are not one normal path component
SerialNumbers ==
    { <<"a">>, Undefined, <<".", ".">>, <<".", ".", "/", "a">> }

\* the symbols of the strings handed to path_is_valid: the separator, the
\* dot and an ordinary character
PathSymbols == {"/", ".", "a"}

\* every string of at most MaxPathLen symbols
PathStrings == UNION {[1..n -> PathSymbols] : n \in 0..MaxPathLen}

Msg(ty, tx, d) == [type |-> ty, text |-> tx, data |-> d]

\* axum::extract::ws::Message
Messages(tag) ==
    {Msg("Text", sn, <<>>) : sn \in SerialNumbers}
        \cup {Msg("Binary", <<>>, d) : d \in Payloads(tag)}
        \cup {Msg("Ping", <<>>, <<>>), Msg("Pong", <<>>, <<>>), Msg("Close", <<>>, <<>>)}

NoFrame == Msg("none", <<>>, <<>>)

(***************************************************************************)
(* State.                                                                  *)
(***************************************************************************)
VARIABLES
    variant,        \* the binary that runs: "ws", "device" (http-server.rs), "flat" (main.rs)
    now,            \* the second at which Local::now() was last read
    dirs,           \* the directories of the filesystem
    files,          \* file path -> content
    faults,         \* I/O faults injected so far
    pc,             \* task -> where its handler stands
    serial_number,  \* task -> serial_number of handle_socket / save_request_body
    ended,          \* websocket task -> the inbound stream has ended
    call,           \* task -> the locals of its running persistence call
    resp,           \* http task -> the response sent
    recvd,          \* websocket task -> the frames it has received (history)
    sent,           \* websocket task -> the outcomes of its socket.send calls (history)
    probe,          \* a call of path_is_valid on its own: the argument and the result
    touched,        \* task -> it has issued a filesystem call (history)
    calls           \* the persistence calls in the order they began (history)

vars == <<variant, now, dirs, files, faults, pc, serial_number, ended, call,
          resp, recvd, sent, probe, touched, calls>>

NoCall == [serial |-> <<>>, data |-> <<>>, ts |-> 0, pos |-> 0,
           out |-> <<>>, inp |-> <<>>, idx |-> 0]

CallSteps == {"mkdir", "create", "copy", "reopen", "create_latest", "copy_latest"}

InCall(t) == pc[t] \in CallSteps

RECURSIVE SumLen(_)
SumLen(S) ==
    IF S = {} THEN 0
    ELSE LET t == CHOOSE x \in S : TRUE
         IN  Len(recvd[t]) + SumLen(S \ {t})

\* frames delivered so far, all sessions together
nrecv == SumLen(Tasks)

\* the first inbound frame of a session
first(t) == IF recvd[t] = << >> THEN NoFrame ELSE recvd[t][1]

\* const UPLOADS_DIRECTORY of the running binary
UploadsDirectory == IF variant = "ws" THEN UPLOADS_DIRECTORY_WS ELSE UPLOADS_DIRECTORY

\* no call of path_is_valid on its own
NoProbe == [path |-> << >>, out |-> "none"]

InitCommon ==
    /\ now = 0
    /\ probe = NoProbe
    /\ files = << >>
    /\ faults = 0
    /\ ended = [t \in Tasks |-> FALSE]
    /\ call = [t \in Tasks |-> NoCall]
    /\ resp = [t \in Tasks |-> "none"]
    /\ recvd = [t \in Tasks |-> << >>]
    /\ sent = [t \in Tasks |-> << >>]
    /\ touched = [t \in Tasks |-> FALSE]
    /\ calls = << >>

\* websocket-server.rs: main creates no directory
InitWs ==
    /\ variant = "ws"
    /\ dirs = {<<>>, Cwd}
    /\ pc = [t \in Tasks |-> "ping"]
    /\ serial_number = [t \in Tasks |-> Undefined]
    /\ InitCommon

\* http-server.rs and main.rs: main creates the uploads directory
InitHttp ==
    /\ variant \in {"device", "flat"}
    /\ dirs = {<<>>, Cwd, Cwd \o <<UPLOADS_DIRECTORY>>}
    /\ pc = [t \in Tasks |-> "start"]
    /\ serial_number = [t \in Tasks |-> << >>]
    /\ InitCommon

(***************************************************************************)
(* The persistence operation: save_image (websocket-server.rs) and         *)
(* stream_to_file (http-server.rs, main.rs).                               *)
(***************************************************************************)
\* a plausible slip: the body is written under the latest name
StoredPath_Latest(c) ==
    IF variant = "flat" THEN filename_latest
    ELSE FormatSlash(c.serial, filename_latest)

\* the path string of the stored image file, before Path::join
StoredPath(c) ==
    IF variant = "flat" THEN ImageFilename(c.ts)
    ELSE FormatSlash(c.serial, ImageFilename(c.ts))

\* the path string of the latest pointer file, before Path::join
LatestPath(c) ==
    IF variant = "flat" THEN filename_latest
    ELSE FormatSlash(c.serial, filename_latest)

\* a plausible slip: after a frame has been saved the handler waits for an
\* identifier again
AfterCall_Reawait(st) ==
    IF st = "panic" THEN "panicked"
    ELSE IF variant = "ws" THEN "await" ELSE "done"

\* where the handler stands once the call has ended with st: the websocket
\* loop drops the Result and goes on; a panic unwinds the task
AfterCall(st) ==
    IF st = "panic" THEN "panicked"
    ELSE IF variant = "ws" THEN "loop" ELSE "done"

\* the response of the http handlers: Ok(()) or (INTERNAL_SERVER_ERROR, err)
Response(st, old) ==
    IF variant = "ws" THEN old
    ELSE CASE st = "ok" -> "200"
           [] st = "err" -> "500"
           [] OTHER -> old

Return(t, st) ==
    /\ calls' = [calls EXCEPT ![call[t].idx].status = st]
    /\ pc' = [pc EXCEPT ![t] = AfterCall(st)]
    /\ resp' = [resp EXCEPT ![t] = Response(st, @)]

Inject == faults < MaxFaults /\ faults' = faults + 1

\* the call begins: Local::now() has been read as ts (the clock has not
\* gone back since it was last read) and the arguments are bound
Begin(t, sn, d, ts, step) ==
    /\ now' = ts
    /\ call' = [call EXCEPT ![t] = [NoCall EXCEPT !.serial = sn, !.data = d,
                                       !.ts = ts,
                                       !.idx = Len(calls) + 1]]
    /\ calls' = Append(calls, [task |-> t, serial |-> sn, data |-> d, ts |-> ts,
                               status |-> "run",
                               overlap |-> \E u \in Tasks \ {t} : InCall(u)])
    /\ pc' = [pc EXCEPT ![t] = step]

\* create_dir_all(format!("{}/{}", UPLOADS_DIRECTORY, serial_number)).expect(..)
Mkdir(t) ==
    /\ pc[t] = "mkdir"
    /\ touched' = [touched EXCEPT ![t] = TRUE]
    /\ LET r == create_dir_all(FormatSlash(UploadsDirectory, call[t].serial),
                               dirs, DOMAIN files)
       IN  \/ /\ r.ok
              /\ dirs' = r.dirs
              /\ pc' = [pc EXCEPT ![t] = "create"]
              /\ UNCHANGED <<faults, resp, calls>>
           \/ /\ ~r.ok
              /\ dirs' = r.dirs
              /\ Return(t, "panic")
              /\ UNCHANGED faults
           \/ /\ Inject
              /\ Return(t, "panic")
              /\ UNCHANGED dirs
    /\ UNCHANGED <<variant, probe, sent, now, files, serial_number, ended, call, recvd>>

\* File::create(Path::new(UPLOADS_DIRECTORY).join(&path))
CreateStored(t) ==
    /\ pc[t] = "create"
    /\ touched' = [touched EXCEPT ![t] = TRUE]
    /\ LET r == ResolveFile(PathJoin(UploadsDirectory, StoredPath(call[t])), dirs)
       IN  \/ /\ r.ok
              /\ files' = FileCreate(r.path, files)
              /\ call' = [call EXCEPT ![t].out = r.path, ![t].pos = 0]
              /\ pc' = [pc EXCEPT ![t] = "copy"]
              /\ UNCHANGED <<faults, resp, calls>>
           \/ /\ ~r.ok
              /\ Return(t, "err")
              /\ UNCHANGED <<files, call, faults>>
           \/ /\ Inject
              /\ Return(t, "err")
              /\ UNCHANGED <<files, call>>
    /\ UNCHANGED <<variant, probe, sent, now, dirs, serial_number, ended, recvd>>

\* tokio::io::copy(&mut body_reader, &mut file): one buffer per step, then
\* the flush at the end of the source; the body stream of an http request
\* may yield an error instead of its next chunk
CopyStored(t) ==
    /\ pc[t] = "copy"
    /\ LET c == call[t]
           n == Min(ChunkSize, Len(c.data) - c.pos)
       IN  \/ /\ c.pos < Len(c.data)
              /\ files' = [files EXCEPT ![c.out] =
                              WriteAt(@, c.pos, SubSeq(c.data, c.pos + 1, c.pos + n))]
              /\ call' = [call EXCEPT ![t].pos = c.pos + n]
              /\ UNCHANGED <<pc, faults, resp, calls>>
           \/ /\ c.pos = Len(c.data)
              /\ pc' = [pc EXCEPT ![t] = "reopen"]
              /\ UNCHANGED <<files, call, faults, resp, calls>>
           \/ /\ variant /= "ws"
              /\ Return(t, "err")
              /\ UNCHANGED <<files, call, faults>>
           \/ /\ Inject
              /\ Return(t, "err")
              /\ UNCHANGED <<files, call>>
    /\ UNCHANGED <<variant, probe, sent, now, dirs, serial_number, ended, recvd, touched>>

\* File::open(path_buf): the file just copied is opened for reading
Reopen(t) ==
    /\ pc[t] = "reopen"
    /\ LET r == ResolveFile(PathJoin(UploadsDirectory, StoredPath(call[t])), dirs)
       IN  \/ /\ r.ok /\ r.path \in DOMAIN files
              /\ call' = [call EXCEPT ![t].inp = r.path]
              /\ pc' = [pc EXCEPT ![t] = "create_latest"]
              /\ UNCHANGED <<faults, resp, calls>>
           \/ /\ Inject
              /\ Return(t, "err")
              /\ UNCHANGED call
    /\ UNCHANGED <<variant, probe, sent, now, dirs, files, serial_number, ended, recvd, touched>>

\* File::create(path_latest_buf)
CreateLatest(t) ==
    /\ pc[t] = "create_latest"
    /\ LET r == ResolveFile(PathJoin(UploadsDirectory, LatestPath(call[t])), dirs)
       IN  \/ /\ r.ok
              /\ files' = FileCreate(r.path, files)
              /\ call' = [call EXCEPT ![t].out = r.path, ![t].pos = 0]
              /\ pc' = [pc EXCEPT ![t] = "copy_latest"]
              /\ UNCHANGED <<faults, resp, calls>>
           \/ /\ Inject
              /\ Return(t, "err")
              /\ UNCHANGED <<files, call>>
    /\ UNCHANGED <<variant, probe, sent, now, dirs, serial_number, ended, recvd, touched>>

\* tokio::io::copy(&mut image_file, &mut file_latest): each step reads one
\* buffer of the stored file at the reader's offset and writes it at the
\* writer's offset; a read of no bytes ends the copy
CopyLatest(t) ==
    /\ pc[t] = "copy_latest"
    /\ LET c == call[t]
           src == files[c.inp]
           n == Min(ChunkSize, Len(src) - c.pos)
       IN  \/ /\ c.pos < Len(src)
              /\ files' = [files EXCEPT ![c.out] =
                              WriteAt(@, c.pos, SubSeq(src, c.pos + 1, c.pos + n))]
              /\ call' = [call EXCEPT ![t].pos = c.pos + n]
              /\ UNCHANGED <<pc, faults, resp, calls>>
           \/ /\ c.pos >= Len(src)
              /\ Return(t, "ok")
              /\ UNCHANGED <<files, call, faults>>
           \/ /\ Inject
              /\ Return(t, "err")
              /\ UNCHANGED <<files, call>>
    /\ UNCHANGED <<variant, probe, sent, now, dirs, serial_number, ended, recvd, touched>>

(***************************************************************************)
(* websocket-server.rs: handle_socket, get_text, process_message.          *)
(***************************************************************************)
\* a plausible slip: only Close breaks, any other frame kind continues
\* without a text
get_text_Lenient(msg) ==
    IF msg.type = "Close" THEN [brk |-> TRUE, some |-> FALSE, value |-> <<>>]
    ELSE [brk |-> FALSE, some |-> msg.type = "Text", value |-> msg.text]

\* a plausible slip: the Pong that answers the opening ping is let through
get_text_PongOK(msg) ==
    IF msg.type \in {"Text", "Pong"}
    THEN [brk |-> FALSE, some |-> msg.type = "Text", value |-> msg.text]
    ELSE [brk |-> TRUE, some |-> FALSE, value |-> <<>>]

\* ControlFlow<(), String> of get_text: Continue(text) for a text frame,
\* Break for every other frame kind
get_text(msg) ==
    IF msg.type = "Text" THEN [brk |-> FALSE, some |-> TRUE, value |-> msg.text]
    ELSE [brk |-> TRUE, some |-> FALSE, value |-> <<>>]

\* a plausible slip: the last arm breaks, as the last arm of get_text does
process_message_BreakOnOther(msg) ==
    CASE msg.type = "Binary" -> "save"
      [] msg.type = "Text" -> "continue"
      [] OTHER -> "break"

\* a plausible slip: a binary frame that carries no bytes is skipped
process_message_SkipEmpty(msg) ==
    CASE msg.type = "Binary" /\ msg.data /= << >> -> "save"
      [] msg.type = "Close" -> "break"
      [] OTHER -> "continue"

\* what process_message does with a frame
process_message(msg) ==
    CASE msg.type = "Binary" -> "save"
      [] msg.type = "Close" -> "break"
      [] OTHER -> "continue"

\* a plausible slip: a later text frame renames the device
LoopSerial_Rebind(msg, old) == IF msg.type = "Text" THEN msg.text ELSE old

\* serial_number after a frame of the receive loop: process_message takes
\* it by shared reference and never assigns it
LoopSerial(msg, old) == old

\* a plausible slip: the identifier is kept in one place for all connections
SetSerial_Shared(sn, t, value) == [u \in Tasks |-> value]

\* serial_number = text.clone(): serial_number is a local of the task that
\* runs handle_socket for the connection
SetSerial(sn, t, value) == [sn EXCEPT ![t] = value]

\* a plausible slip: the outcome of the send is not looked at
AfterPing_Ignored(ok) == "await"

\* if socket.send(..).await.is_ok() { .. } else { return; }
AfterPing(ok) == IF ok THEN "await" ELSE "closed"

\* socket.send(Message::Ping(..)) at connection open
WsSendPing(t) ==
    /\ pc[t] = "ping"
    /\ \E ok \in BOOLEAN :
         /\ sent' = [sent EXCEPT ![t] = Append(@, IF ok THEN "ok" ELSE "err")]
         /\ pc' = [pc EXCEPT ![t] = AfterPing(ok)]
    /\ UNCHANGED <<variant, probe, now, dirs, files, faults, serial_number, ended, call,
                   resp, recvd, touched, calls>>

\* the first socket.recv(): if let Some(msg) = socket.recv().await { .. }
WsRecvFirst(t) ==
    /\ pc[t] = "await"
    /\ \/ \* None: the if let is skipped and the loop below is reached
          /\ ended' = [ended EXCEPT ![t] = TRUE]
          /\ pc' = [pc EXCEPT ![t] = "loop"]
          /\ UNCHANGED <<serial_number, recvd>>
       \/ \* Some(Err(_)): abruptly disconnected
          /\ ended' = [ended EXCEPT ![t] = TRUE]
          /\ pc' = [pc EXCEPT ![t] = "closed"]
          /\ UNCHANGED <<serial_number, recvd>>
       \/ \* Some(Ok(msg))
          /\ nrecv < MaxFrames
          /\ \E msg \in Messages(nrecv + 1) :
               LET message == get_text(msg)
               IN  /\ recvd' = [recvd EXCEPT ![t] = Append(@, msg)]
                   /\ IF message.brk
                      THEN /\ pc' = [pc EXCEPT ![t] = "closed"]
                           /\ UNCHANGED serial_number
                      ELSE /\ pc' = [pc EXCEPT ![t] = "loop"]
                           /\ serial_number' =
                                  SetSerial(serial_number, t,
                                            IF message.some THEN message.value
                                            ELSE serial_number[t])
          /\ UNCHANGED ended
    /\ UNCHANGED <<variant, probe, sent, now, dirs, files, faults, call, resp, touched, calls>>

\* while let Some(msg) = socket.recv().await { .. }: one frame of the loop;
\* a stream that has ended yields None again
WsRecv(t) ==
    /\ pc[t] = "loop"
    /\ \/ \* None: "Websocket context destroyed"
          /\ ended' = [ended EXCEPT ![t] = TRUE]
          /\ pc' = [pc EXCEPT ![t] = "closed"]
          /\ UNCHANGED <<now, serial_number, recvd, call, calls>>
       \/ \* Some(Err(_)): abruptly disconnected
          /\ ~ended[t]
          /\ ended' = [ended EXCEPT ![t] = TRUE]
          /\ pc' = [pc EXCEPT ![t] = "closed"]
          /\ UNCHANGED <<now, serial_number, recvd, call, calls>>
       \/ \* Some(Ok(msg)): process_message(msg, who, &serial_number)
          /\ ~ended[t]
          /\ nrecv < MaxFrames
          /\ \E msg \in Messages(nrecv + 1) :
               /\ recvd' = [recvd EXCEPT ![t] = Append(@, msg)]
               /\ serial_number' = [serial_number EXCEPT ![t] = LoopSerial(msg, @)]
               /\ CASE process_message(msg) = "save" ->
                         \E ts \in now..MaxTime :
                             Begin(t, serial_number[t], msg.data, ts, "mkdir")
                    [] process_message(msg) = "break" ->
                         /\ pc' = [pc EXCEPT ![t] = "closed"]
                         /\ UNCHANGED <<now, call, calls>>
                    [] OTHER -> UNCHANGED <<now, pc, call, calls>>
          /\ UNCHANGED ended
    /\ UNCHANGED <<variant, probe, sent, dirs, files, faults, resp, touched>>

(***************************************************************************)
(* http-server.rs and main.rs: save_request_body, stream_to_file.          *)
(***************************************************************************)
\* whether stream_to_file checks its path argument: main.rs does, in
\* http-server.rs the check is commented out
Validates == variant = "flat"

\* the request reaches the handler and stream_to_file runs up to its first
\* await
\* main.rs passes the file name it has formatted from Local::now(),
\* http-server.rs the :serial_number segment of the route (percent-decoded,
\* never empty)
HttpStart(t) ==
    /\ pc[t] = "start"
    /\ \E body \in Payloads(t), ts \in now..MaxTime,
          sn \in (IF variant = "flat" THEN {<< >>} ELSE SerialNumbers) :
         LET path == IF variant = "flat" THEN ImageFilename(ts) ELSE sn
         IN  /\ serial_number' = [serial_number EXCEPT ![t] = sn]
             /\ IF Validates /\ ~path_is_valid(path)
                THEN /\ pc' = [pc EXCEPT ![t] = "done"]
                     /\ resp' = [resp EXCEPT ![t] = "400 Invalid path"]
                     /\ now' = ts
                     /\ UNCHANGED <<call, calls>>
                ELSE /\ Begin(t, sn, body, ts,
                              IF variant = "flat" THEN "create" ELSE "mkdir")
                     /\ UNCHANGED resp
    /\ UNCHANGED <<variant, probe, sent, dirs, files, faults, ended, recvd, touched>>

\* path_is_valid called on its own, with any string: it returns a bool and
\* does nothing else
CallPathIsValid ==
    /\ probe.out = "none"
    /\ probe' = [probe EXCEPT !.out = IF path_is_valid(probe.path) THEN "true" ELSE "false"]
    /\ UNCHANGED <<variant, now, dirs, files, faults, pc, serial_number, ended, call,
                   resp, recvd, sent, touched, calls>>

\* the function is the same in main.rs and http-server.rs; its argument is
\* any string
InitPath ==
    /\ variant \in {"device", "flat"}
    /\ dirs = {<<>>, Cwd, Cwd \o <<UPLOADS_DIRECTORY>>}
    /\ pc = [t \in Tasks |-> "start"]
    /\ serial_number = [t \in Tasks |-> << >>]
    /\ now = 0
    /\ probe \in [path : PathStrings, out : {"none"}]
    /\ files = << >>
    /\ faults = 0
    /\ ended = [t \in Tasks |-> FALSE]
    /\ call = [t \in Tasks |-> NoCall]
    /\ resp = [t \in Tasks |-> "none"]
    /\ recvd = [t \in Tasks |-> << >>]
    /\ sent = [t \in Tasks |-> << >>]
    /\ touched = [t \in Tasks |-> FALSE]
    /\ calls = << >>

(***************************************************************************)
(* Specifications.                                                         *)
(***************************************************************************)
Persist(t) ==
    \/ Mkdir(t)
    \/ CreateStored(t)
    \/ CopyStored(t)
    \/ Reopen(t)
    \/ CreateLatest(t)
    \/ CopyLatest(t)

NextWs ==
    \E t \in Tasks : WsSendPing(t) \/ WsRecvFirst(t) \/ WsRecv(t) \/ Persist(t)

NextHttp ==
    \E t \in Tasks : HttpStart(t) \/ Persist(t)

\* the websocket server with one connection only: the second never opens
NextWsSingle ==
    \E t \in {1} : WsSendPing(t) \/ WsRecvFirst(t) \/ WsRecv(t) \/ Persist(t)

\* the websocket server, its connections running concurrently
SpecWs == InitWs /\ [][NextWs]_vars

\* the websocket server serving a single connection
SpecWsSingle == InitWs /\ [][NextWsSingle]_vars

\* two connections open at once, their frames and steps interleaved, while
\* the environment injects no fault and the clock stands at its last second
InitWsPair ==
    /\ variant = "ws"
    /\ dirs = {<<>>, Cwd}
    /\ pc = [t \in Tasks |-> "ping"]
    /\ serial_number = [t \in Tasks |-> Undefined]
    /\ now = MaxTime
    /\ probe = NoProbe
    /\ files = << >>
    /\ faults = MaxFaults
    /\ ended = [t \in Tasks |-> FALSE]
    /\ call = [t \in Tasks |-> NoCall]
    /\ resp = [t \in Tasks |-> "none"]
    /\ recvd = [t \in Tasks |-> << >>]
    /\ sent = [t \in Tasks |-> << >>]
    /\ touched = [t \in Tasks |-> FALSE]
    /\ calls = << >>

SpecWsPair == InitWsPair /\ [][NextWs]_vars

\* the websocket server serving a single connection, with the scheduling the
\* tokio runtime gives: a task that waits in its receive loop on an inbound
\* stream that has ended is woken up and sees the end
SpecWsFair ==
    /\ InitWs
    /\ [][NextWsSingle]_vars
    /\ \A t \in {1} : WF_vars(ended[t] /\ WsRecv(t))

\* the http servers with all their requests arriving within the last second
\* of the clock
InitHttpSecond ==
    /\ variant \in {"device", "flat"}
    /\ dirs = {<<>>, Cwd, Cwd \o <<UPLOADS_DIRECTORY>>}
    /\ pc = [t \in Tasks |-> "start"]
    /\ serial_number = [t \in Tasks |-> << >>]
    /\ now = MaxTime
    /\ probe = NoProbe
    /\ files = << >>
    /\ faults = 0
    /\ ended = [t \in Tasks |-> FALSE]
    /\ call = [t \in Tasks |-> NoCall]
    /\ resp = [t \in Tasks |-> "none"]
    /\ recvd = [t \in Tasks |-> << >>]
    /\ sent = [t \in Tasks |-> << >>]
    /\ touched = [t \in Tasks |-> FALSE]
    /\ calls = << >>

SpecHttpSecond == InitHttpSecond /\ [][NextHttp]_vars

\* the two http servers
SpecHttp == InitHttp /\ [][NextHttp]_vars

NextPath == CallPathIsValid

\* path_is_valid on its own, over every string of the bound
SpecPath == InitPath /\ [][NextPath]_vars

(***************************************************************************)
(* Vocabulary of the properties.                                           *)
(***************************************************************************)
\* the uploads directory of the running binary, resolved
UploadsRoot == Append(Cwd, UploadsDirectory)

\* the files a call writes, resolved as the handlers' path strings resolve
StoredOf(c) == ResolveFile(PathJoin(UploadsDirectory, StoredPath(c)), dirs).path
LatestOf(c) == ResolveFile(PathJoin(UploadsDirectory, LatestPath(c)), dirs).path

HasContent(p, d) == p \in DOMAIN files /\ files[p] = d

\* the states of a websocket session
State(p) ==
    CASE p \in {"ping", "await"} -> "AwaitingIdentifier"
      [] p \in {"closed", "panicked"} -> "Closed"
      [] OTHER -> "Active"

CallsOf(t) == {i \in DOMAIN calls : calls[i].task = t}

\* the calls so far ran one at a time, all succeeded, all for one device,
\* each in a second of its own, and none is running
Sequential ==
    /\ calls /= << >>
    /\ \A t \in Tasks : ~InCall(t)
    /\ \A i \in DOMAIN calls :
         /\ calls[i].status = "ok"
         /\ ~calls[i].overlap
         /\ calls[i].serial = calls[1].serial
    /\ \A i, j \in DOMAIN calls : i /= j => calls[i].ts /= calls[j].ts

(***************************************************************************)
(* C1: in http-server.rs (POST /upload/:serial_number) a request whose     *)
(* device identifier is not exactly one normal path component is answered  *)
(* 400 "Invalid path" and has issued no filesystem call.                   *)
(* The code does not do this: the check is commented out.                  *)
(***************************************************************************)
C1_InvalidPathRejected ==
    \A t \in Tasks :
        (variant = "device" /\ pc[t] /= "start" /\ ~path_is_valid(serial_number[t]))
            => /\ pc[t] = "done"
               /\ resp[t] = "400 Invalid path"
               /\ ~touched[t]

(***************************************************************************)
(* C2: in the websocket server every file and directory that is created    *)
(* lies at <uploads-root>/<identifier>/.. with the identifier one normal   *)
(* component, and a session whose identifier is not one normal component   *)
(* issues no filesystem call.  The code does not check the identifier.     *)
(***************************************************************************)
C2_WritesStayUnderDevice ==
    /\ \A t \in Tasks : ~path_is_valid(serial_number[t]) => ~touched[t]
    /\ \A p \in DOMAIN files :
         /\ Len(p) = Len(UploadsRoot) + 2
         /\ SubSeq(p, 1, Len(UploadsRoot)) = UploadsRoot
    /\ \A d \in dirs \ {<< >>, Cwd, UploadsRoot} :
         /\ Len(d) = Len(UploadsRoot) + 1
         /\ SubSeq(d, 1, Len(UploadsRoot)) = UploadsRoot

(***************************************************************************)
(* C3: after successful persistence calls for one device that ran one at   *)
(* a time, each with its own timestamp, every stored image file holds the  *)
(* payload of its call, and the latest pointer file of the device exists   *)
(* and holds the payload of the last call, as does that call's stored      *)
(* file.                                                                   *)
(***************************************************************************)
C3_SequentialUploads ==
    Sequential =>
        LET last == calls[Len(calls)]
        IN  /\ \A i \in DOMAIN calls :
                 /\ HasContent(StoredOf(calls[i]), calls[i].data)
                 /\ path_is_valid(calls[i].serial) =>
                        StoredOf(calls[i]) =
                            UploadsRoot \o <<calls[i].serial, ImageFilename(calls[i].ts)>>
            /\ HasContent(LatestOf(last), last.data)
            /\ files[LatestOf(last)] = files[StoredOf(last)]
            /\ last.data /= << >> => files[LatestOf(last)] /= << >>
            /\ path_is_valid(last.serial) =>
                   LatestOf(last) = UploadsRoot \o <<last.serial, filename_latest>>

\* two uploads in a row, the second shorter than the first
C3_Witness ==
    /\ Sequential
    /\ Len(calls) >= 2
    /\ Len(calls[1].data) = 2
    /\ Len(calls[2].data) = 1

(***************************************************************************)
(* C4: when two persistence calls for the same device, with distinct       *)
(* timestamps, have both returned success, both stored image files hold    *)
(* their payloads and the latest pointer file holds in full the payload    *)
(* of one of the two.  The code does not ensure this when the copies into  *)
(* the latest file interleave.                                             *)
(***************************************************************************)
C4_ConcurrentLatestWhole ==
    \A t, u \in Tasks :
        ( /\ t /= u
          /\ variant = "device"
          /\ pc[t] = "done" /\ resp[t] = "200"
          /\ pc[u] = "done" /\ resp[u] = "200"
          /\ call[t].serial = call[u].serial
          /\ call[t].ts /= call[u].ts )
        => /\ HasContent(StoredOf(call[t]), call[t].data)
           /\ HasContent(StoredOf(call[u]), call[u].data)
           /\ LatestOf(call[t]) \in DOMAIN files
           /\ files[LatestOf(call[t])] \in {call[t].data, call[u].data}

(***************************************************************************)
(* C5: a websocket session makes no persistence attempt and issues no      *)
(* filesystem call while it awaits its identifier; a first inbound frame   *)
(* that is not a text frame closes the session, and the session never      *)
(* persists anything, the payload of a binary first frame included.        *)
(***************************************************************************)
C5_NoPersistBeforeIdentifier ==
    \A t \in Tasks :
        /\ State(pc[t]) = "AwaitingIdentifier" => (~touched[t] /\ CallsOf(t) = {})
        /\ first(t).type \notin {"Text", "none"} =>
               (pc[t] = "closed" /\ ~touched[t] /\ CallsOf(t) = {})

\* a binary frame with a payload came first and the session is closed
C5_Witness ==
    \E t \in Tasks :
        /\ first(t).type = "Binary"
        /\ first(t).data /= << >>
        /\ pc[t] = "closed"

(***************************************************************************)
(* C6, as stated: a session moves AwaitingIdentifier -> Active -> Closed;  *)
(* Active is entered only from AwaitingIdentifier and only on receipt of   *)
(* a text frame; nothing leads back to AwaitingIdentifier; Closed is       *)
(* terminal.                                                               *)
(***************************************************************************)
NoBackwardStep(t) ==
    /\ State(pc'[t]) = "AwaitingIdentifier" => State(pc[t]) = "AwaitingIdentifier"
    /\ State(pc[t]) = "Closed" =>
           /\ pc'[t] = pc[t]
           /\ recvd'[t] = recvd[t]
           /\ touched'[t] = touched[t]
           /\ call'[t] = call[t]
           /\ serial_number'[t] = serial_number[t]
           /\ Len(calls') > Len(calls) => calls'[Len(calls')].task /= t

EntersActive(t) == State(pc[t]) /= "Active" /\ State(pc'[t]) = "Active"

OnTextFrame(t) ==
    /\ recvd[t] = << >>
    /\ Len(recvd'[t]) = 1
    /\ recvd'[t][1].type = "Text"

C6_OrderOnTextOnly ==
    [][\A t \in Tasks :
          /\ NoBackwardStep(t)
          /\ EntersActive(t) => (State(pc[t]) = "AwaitingIdentifier" /\ OnTextFrame(t))
      ]_vars

(***************************************************************************)
(* C6, amended: as above, but Active is entered on receipt of a text       *)
(* frame or when the inbound stream ends before a first frame; in the      *)
(* second case the session receives no frame and begins no persistence     *)
(* call afterwards.                                                        *)
(***************************************************************************)
C6_OrderOnTextOrEnd ==
    [][\A t \in Tasks :
          /\ NoBackwardStep(t)
          /\ EntersActive(t) =>
                 /\ State(pc[t]) = "AwaitingIdentifier"
                 /\ OnTextFrame(t) \/ (ended'[t] /\ recvd'[t] = << >>)
          /\ ended[t] =>
                 /\ recvd'[t] = recvd[t]
                 /\ Len(calls') > Len(calls) => calls'[Len(calls')].task /= t
      ]_vars

\* a session has gone from AwaitingIdentifier on a text frame through
\* Active, where it saved an upload, to Closed at the end of its stream
C6_Witness ==
    \E t \in Tasks :
        /\ pc[t] = "closed"
        /\ ended[t]
        /\ first(t).type = "Text"
        /\ \E i \in CallsOf(t) : calls[i].status = "ok"

(***************************************************************************)
(* C7: within one session the identifier is the payload of the first text  *)
(* frame; later text frames do not change it, and every persistence        *)
(* attempt of the session uses it.                                         *)
(***************************************************************************)
C7_IdentifierSetOnce ==
    /\ \A t \in Tasks :
         serial_number[t] = IF first(t).type = "Text" THEN first(t).text ELSE Undefined
    /\ \A i \in DOMAIN calls :
         /\ first(calls[i].task).type = "Text"
         /\ calls[i].serial = first(calls[i].task).text

\* a second, different text frame came before the binary frame that was saved
C7_Witness ==
    \E t \in Tasks :
        /\ Len(recvd[t]) >= 3
        /\ recvd[t][1].type = "Text"
        /\ recvd[t][2].type = "Text"
        /\ recvd[t][2].text /= recvd[t][1].text
        /\ recvd[t][3].type = "Binary"
        /\ CallsOf(t) /= {}

(***************************************************************************)
(* C8: in a websocket session a persistence attempt that fails at any      *)
(* step leaves the session Active, in its receive loop, with the same      *)
(* identifier.  The code panics when the directory cannot be created.      *)
(***************************************************************************)
C8_FailureKeepsSession ==
    [][\A t \in Tasks :
          (InCall(t) /\ calls'[call[t].idx].status \in {"err", "panic"})
              => (pc'[t] = "loop" /\ serial_number'[t] = serial_number[t])
      ]_vars

(***************************************************************************)
(* C9: in the http servers every failure of the persistence operation is   *)
(* answered 500, every request that has ended has a response, and 200 is   *)
(* sent only when every step succeeded.  The code panics when the device   *)
(* directory cannot be created, and the request gets no response.          *)
(***************************************************************************)
C9_FailureIs500 ==
    /\ \A t \in Tasks : pc[t] \notin ({"start"} \cup CallSteps) => resp[t] /= "none"
    /\ \A i \in DOMAIN calls :
         /\ calls[i].status \in {"err", "panic"} => resp[calls[i].task] = "500"
         /\ resp[calls[i].task] = "200" => calls[i].status = "ok"

(***************************************************************************)
(* C10, as stated: a session whose first inbound frame is not a text       *)
(* frame goes on, Active under the placeholder identifier "undefined", to  *)
(* process the frames that follow.                                         *)
(***************************************************************************)
C10_GoesOnUndefined ==
    \A t \in Tasks :
        (Len(recvd[t]) = 1 /\ first(t).type \in {"Binary", "Ping", "Pong"} /\ ~ended[t])
            => (State(pc[t]) = "Active" /\ serial_number[t] = Undefined)

(***************************************************************************)
(* C10, amended: a first inbound frame that is not a text frame closes     *)
(* the session with no persistence attempt; a session whose stream ends    *)
(* before a first frame reaches the receive loop under "undefined" but     *)
(* begins no persistence call; so a persistence attempt under "undefined"  *)
(* is made only by a session whose peer sent the text "undefined".         *)
(***************************************************************************)
C10_UndefinedOnlyWhenSent ==
    /\ \A t \in Tasks :
         /\ first(t).type \notin {"Text", "none"} => State(pc[t]) = "Closed"
         /\ first(t).type /= "Text" => CallsOf(t) = {}
         /\ (recvd[t] = << >> /\ State(pc[t]) = "Active") =>
                (ended[t] /\ serial_number[t] = Undefined)
    /\ \A i \in DOMAIN calls :
         calls[i].serial = Undefined =>
             first(calls[i].task) = Msg("Text", Undefined, << >>)

\* a session has saved a frame under "undefined", the text its peer sent
C10_Witness ==
    \E t \in Tasks :
        /\ first(t) = Msg("Text", Undefined, << >>)
        /\ \E i \in CallsOf(t) :
               /\ calls[i].serial = Undefined
               /\ calls[i].status = "ok"
               /\ calls[i].data /= << >>

(***************************************************************************)
(* C11: a websocket session sends one ping when the connection opens,      *)
(* before it receives any inbound frame; when that send fails the session  *)
(* is Closed at once: it has received no frame, has not read its inbound   *)
(* stream, holds no identifier but the placeholder and has made no         *)
(* persistence attempt.                                                    *)
(***************************************************************************)
C11_PingBeforeFrames ==
    \A t \in Tasks :
        /\ Len(sent[t]) <= 1
        /\ pc[t] /= "ping" => Len(sent[t]) = 1
        /\ (recvd[t] /= << >> \/ ended[t] \/ CallsOf(t) /= {}) => sent[t] = <<"ok">>
        /\ sent[t] = <<"err">> =>
               /\ State(pc[t]) = "Closed"
               /\ recvd[t] = << >>
               /\ ~ended[t]
               /\ serial_number[t] = Undefined
               /\ CallsOf(t) = {}
               /\ ~touched[t]

\* the opening ping of a session could not be sent
C11_Witness ==
    \E t \in Tasks : sent[t] = <<"err">> /\ pc[t] = "closed"

(***************************************************************************)
(* C12, as stated: path_is_valid returns true exactly when the string      *)
(* has exactly one path component and that component is a normal one; it   *)
(* returns false for every string that is empty, has more than one         *)
(* component, contains "..", or starts with ".", ".." or a root marker;    *)
(* it returns true for every single plain token; it has no side effects.   *)
(***************************************************************************)
HasSub(s, sub) ==
    \E i \in 1..(Len(s) - Len(sub) + 1) : SubSeq(s, i, i + Len(sub) - 1) = sub

StartsWith(s, pre) == Len(s) >= Len(pre) /\ SubSeq(s, 1, Len(pre)) = pre

EndsWith(s, suf) ==
    Len(s) >= Len(suf) /\ SubSeq(s, Len(s) - Len(suf) + 1, Len(s)) = suf

\* exactly one path component, a normal one
OneNormal(s) ==
    LET components == Components(s)
    IN  Len(components) = 1 /\ components[1].kind = "Normal"

\* a token such as "device42" or "a.b": no separator, not made of dots only
PlainToken(s) ==
    /\ s /= << >>
    /\ \A i \in DOMAIN s : s[i] /= "/"
    /\ \E i \in DOMAIN s : s[i] /= "."

\* path_is_valid has returned and nothing but its result has changed
Returned == probe.out /= "none"

NoSideEffect ==
    /\ files = << >>
    /\ dirs = {<<>>, Cwd, Cwd \o <<UPLOADS_DIRECTORY>>}
    /\ calls = << >>
    /\ \A t \in Tasks : ~touched[t] /\ pc[t] = "start" /\ resp[t] = "none"

C12_FalseOnAnyDotDot ==
    Returned =>
        LET s == probe.path
            r == probe.out = "true"
        IN  /\ r <=> OneNormal(s)
            /\ ( \/ s = << >>
                 \/ Len(Components(s)) > 1
                 \/ HasSub(s, <<".", ".">>)
                 \/ StartsWith(s, <<".">>)
                 \/ StartsWith(s, <<"/">>) ) => ~r
            /\ PlainToken(s) => r
            /\ NoSideEffect

(***************************************************************************)
(* C12, amended: as above, but the strings that path_is_valid refuses for  *)
(* their dots are those with a ".." component and those whose first        *)
(* component is "." or ".."; a name that merely contains ".." or starts    *)
(* with "." ("a..", ".a") is one normal component and is accepted.         *)
(* Said without components: the string is accepted exactly when it does    *)
(* not start with a separator, the text before its first separator is a    *)
(* name other than "." and "..", and whatever follows is made of           *)
(* separators and single dots only.                                        *)
(***************************************************************************)
\* the position of the first separator of s, Len(s) + 1 when it has none
FirstSep(s) ==
    IF \E i \in DOMAIN s : s[i] = "/"
    THEN CHOOSE i \in DOMAIN s : s[i] = "/" /\ \A j \in 1..(i - 1) : s[j] /= "/"
    ELSE Len(s) + 1

OneName(s) ==
    LET k == FirstSep(s)
        head == SubSeq(s, 1, k - 1)
        rest == SubSeq(s, k, Len(s))
    IN  /\ head \notin {<< >>, <<".">>, <<".", ".">>}
        /\ \A i \in DOMAIN rest : rest[i] \in {"/", "."}
        /\ ~HasSub(rest, <<".", ".">>)

HasParentDir(s) ==
    LET components == Components(s)
    IN  \E i \in DOMAIN components : components[i].kind = "ParentDir"

FirstNotNormal(s) ==
    LET components == Components(s)
    IN  components /= << >> /\ components[1].kind /= "Normal"

C12_OneNormalComponent ==
    Returned =>
        LET s == probe.path
            r == probe.out = "true"
        IN  /\ r <=> OneNormal(s)
            /\ r <=> OneName(s)
            /\ ( \/ s = << >>
                 \/ Len(Components(s)) > 1
                 \/ HasParentDir(s)
                 \/ FirstNotNormal(s)
                 \/ s \in {<<".">>, <<".", ".">>}
                 \/ StartsWith(s, <<".", "/">>)
                 \/ StartsWith(s, <<".", ".", "/">>)
                 \/ HasSub(s, <<"/", ".", ".", "/">>)
                 \/ EndsWith(s, <<"/", ".", ".">>)
                 \/ StartsWith(s, <<"/">>) ) => ~r
            /\ PlainToken(s) => r
            /\ NoSideEffect

\* a name that contains ".." has been accepted
C12_Witness ==
    /\ Returned
    /\ probe.out = "true"
    /\ HasSub(probe.path, <<".", ".">>)
    /\ PlainToken(probe.path)

(***************************************************************************)
(* C13: with two websocket sessions running at once, their frames          *)
(* interleaved in any order, a frame received on one session changes       *)
(* nothing of the other (its identifier, its position, its frames, its     *)
(* running call), and every persistence call that begins is the call of    *)
(* the session that has just received a binary frame, with the payload of  *)
(* that frame and the identifier that session learned from its own first   *)
(* text frame.                                                             *)
(***************************************************************************)
Receives(t) == Len(recvd'[t]) = Len(recvd[t]) + 1

C13_IdentifierPrivate ==
    [][ /\ \A t, u \in Tasks :
             (t /= u /\ Receives(t)) =>
                 /\ serial_number'[u] = serial_number[u]
                 /\ recvd'[u] = recvd[u]
                 /\ pc'[u] = pc[u]
                 /\ call'[u] = call[u]
        /\ Len(calls') > Len(calls) =>
             LET c == calls'[Len(calls')]
                 t == c.task
             IN  /\ Receives(t)
                 /\ recvd'[t][Len(recvd'[t])] = Msg("Binary", << >>, c.data)
                 /\ first(t).type = "Text"
                 /\ c.serial = first(t).text
                 /\ \A u \in Tasks \ {t} : ~Receives(u)
      ]_vars

\* both sessions are Active under different identifiers, both learned from
\* a text frame, and one has saved a frame under its own
C13_Witness ==
    \E t, u \in Tasks :
        /\ first(t).type = "Text" /\ first(u).type = "Text"
        /\ first(t).text /= first(u).text
        /\ serial_number[t] /= serial_number[u]
        /\ State(pc[u]) = "Active"
        /\ \E i \in CallsOf(t) : calls[i].status = "ok" /\ calls[i].serial = first(t).text

(***************************************************************************)
(* C14: once a successful ingestion has written its stored image file,     *)
(* no step of any ingestion, later or concurrent, in the same second or    *)
(* another, truncates, overwrites or deletes that file.                    *)
(* The code does not ensure this: the file name has second resolution and  *)
(* File::create truncates, so a second ingestion for the device within     *)
(* the same second truncates and rewrites the file of the first.           *)
(***************************************************************************)
C14_StoredNeverMutated ==
    [][\A i \in DOMAIN calls :
          (calls[i].status = "ok" /\ HasContent(StoredOf(calls[i]), calls[i].data))
              => /\ StoredOf(calls[i]) \in DOMAIN files'
                 /\ files'[StoredOf(calls[i])] = calls[i].data
      ]_vars

(***************************************************************************)
(* C15: a websocket session handles its frames one after the other in      *)
(* arrival order: the binary frames it received in Active and its          *)
(* persistence calls correspond one to one, in order, each call carrying   *)
(* the payload of its frame; while a call runs its frame is the last one   *)
(* received, and every earlier call has finished; and when all the calls   *)
(* of the session succeeded, each in a second of its own, for one device   *)
(* with no other writer, the latest pointer file holds the payload of the  *)
(* last binary frame of the session.                                       *)
(***************************************************************************)
IsBinary(m) == m.type = "Binary"

\* the binary frames a session received after its first frame, in order
BinaryFrames(t) ==
    IF recvd[t] = << >> THEN << >> ELSE SelectSeq(Tail(recvd[t]), IsBinary)

\* the persistence calls of a session, in the order they began
RECURSIVE CallSeq(_, _)
CallSeq(t, n) ==
    IF n = 0 THEN << >>
    ELSE IF calls[n].task = t THEN Append(CallSeq(t, n - 1), calls[n])
    ELSE CallSeq(t, n - 1)

\* all the calls are calls of session t, they all succeeded, each in a
\* second of its own, and the session is not inside a call
AloneAndDone(t) ==
    /\ ~InCall(t)
    /\ CallsOf(t) = DOMAIN calls
    /\ \A i \in DOMAIN calls : calls[i].status = "ok"
    /\ \A i, j \in DOMAIN calls : i /= j => calls[i].ts /= calls[j].ts

C15_FramesInOrder ==
    \A t \in Tasks :
        LET bins == BinaryFrames(t)
            cs == CallSeq(t, Len(calls))
        IN  /\ Len(cs) = Len(bins)
            /\ \A k \in DOMAIN cs :
                   /\ cs[k].data = bins[k].data
                   /\ cs[k].status = "run" =>
                          /\ k = Len(cs)
                          /\ InCall(t)
                          /\ recvd[t][Len(recvd[t])] = bins[k]
            /\ InCall(t) => (cs /= << >> /\ cs[Len(cs)].status = "run")
            /\ (AloneAndDone(t) /\ bins /= << >>) =>
                   HasContent(LatestOf(cs[Len(cs)]), bins[Len(bins)].data)

\* a session has saved two binary frames, the second with another payload
\* than the first, and the latest pointer file holds the second
C15_Witness ==
    \E t \in Tasks :
        /\ AloneAndDone(t)
        /\ Len(BinaryFrames(t)) >= 2
        /\ BinaryFrames(t)[1].data /= << >>
        /\ BinaryFrames(t)[2].data /= << >>
        /\ BinaryFrames(t)[2].data /= BinaryFrames(t)[1].data
        /\ HasContent(LatestOf(calls[Len(calls)]), BinaryFrames(t)[2].data)

(***************************************************************************)
(* C16: a step of a persistence call creates, truncates or writes a        *)
(* latest pointer file only once the call has copied its whole body into   *)
(* the stored image file and re-opened it; no step before that (the        *)
(* validation, the directory creation, the creation of the stored file,    *)
(* the body copy, a body stream error included, the re-open), failing or   *)
(* not, changes any latest pointer file.  When the calls run one at a      *)
(* time the stored file holds the whole payload at that point.             *)
(***************************************************************************)
IsLatest(p) == p /= << >> /\ p[Len(p)] = filename_latest

LatestUnchanged ==
    \A p \in DOMAIN files \cup DOMAIN files' :
        IsLatest(p) => /\ p \in DOMAIN files
                       /\ p \in DOMAIN files'
                       /\ files'[p] = files[p]

\* the step is a step of task t
Moves(t) == pc'[t] /= pc[t] \/ call'[t] /= call[t]

OneAtATime == \A i \in DOMAIN calls : ~calls[i].overlap

C16_LatestAfterStored ==
    [][\A t \in Tasks :
          Moves(t) =>
              /\ pc[t] \in {"start", "mkdir", "create", "copy", "reopen"} => LatestUnchanged
              /\ ~LatestUnchanged =>
                     /\ pc[t] \in {"create_latest", "copy_latest"}
                     /\ call[t].inp \in DOMAIN files
                     /\ OneAtATime => files[call[t].inp] = call[t].data
      ]_vars

\* a call has failed after it rewrote the stored image file, and the latest
\* pointer file still holds the payload of the ingestion before it
C16_Witness ==
    \E i, j \in DOMAIN calls :
        /\ i < j
        /\ OneAtATime
        /\ calls[i].status = "ok"
        /\ calls[j].status = "err"
        /\ calls[j].serial = calls[i].serial
        /\ calls[i].data /= << >>
        /\ calls[j].data /= << >>
        /\ HasContent(LatestOf(calls[i]), calls[i].data)
        /\ ~HasContent(StoredOf(calls[j]), calls[i].data)

(***************************************************************************)
(* C17: a ping, pong or text frame received by a websocket session in      *)
(* Active changes nothing but the log: the session stays Active in its     *)
(* receive loop, its identifier is the same, no persistence call begins    *)
(* and no directory or file is created or changed.                         *)
(***************************************************************************)
LastFrame(t) == recvd'[t][Len(recvd'[t])]

C17_LoggedOnly ==
    [][\A t \in Tasks :
          ( /\ State(pc[t]) = "Active"
            /\ Receives(t)
            /\ LastFrame(t).type \in {"Ping", "Pong", "Text"} )
          => /\ pc'[t] = pc[t]
             /\ State(pc'[t]) = "Active"
             /\ serial_number' = serial_number
             /\ dirs' = dirs
             /\ files' = files
             /\ calls' = calls
             /\ call' = call
             /\ touched' = touched
             /\ ended' = ended
      ]_vars

\* a session that has saved an upload has then received a pong; it stands
\* in its receive loop and the files are as the upload left them
C17_Witness ==
    \E t \in Tasks :
        /\ Len(recvd[t]) = 3
        /\ recvd[t][2].type = "Binary"
        /\ recvd[t][2].data /= << >>
        /\ recvd[t][3].type = "Pong"
        /\ pc[t] = "loop"
        /\ \E i \in CallsOf(t) :
               /\ calls[i].status = "ok"
               /\ HasContent(LatestOf(calls[i]), recvd[t][2].data)

(***************************************************************************)
(* C18: a websocket session in Active reaches Closed only on a close       *)
(* condition (a close frame, a receive fault, the end of the inbound       *)
(* stream); a close frame closes the session from AwaitingIdentifier and   *)
(* from Active alike; and, the scheduling being fair and the persistence   *)
(* calls terminating, a session whose connection has ended is eventually   *)
(* Closed.                                                                 *)
(* The code does not do the first: a persistence call that cannot create   *)
(* the device directory panics (C8), and the session is gone with no       *)
(* close condition.                                                        *)
(***************************************************************************)
\* the step is a receive of session t that yields a close frame, a fault or
\* the end of the stream
CloseCondition(t) ==
    \/ Receives(t) /\ LastFrame(t).type = "Close"
    \/ pc[t] = "loop" /\ ended'[t] /\ recvd'[t] = recvd[t]

ClosedOnlyOnCloseCondition ==
    [][\A t \in Tasks :
          /\ (State(pc[t]) = "Active" /\ State(pc'[t]) = "Closed") => CloseCondition(t)
          /\ (Receives(t) /\ LastFrame(t).type = "Close") => State(pc'[t]) = "Closed"
      ]_vars

EndedLeadsToClosed ==
    \A t \in Tasks : ended[t] ~> (State(pc[t]) = "Closed")

C18_ClosesOnCloseCondition == ClosedOnlyOnCloseCondition /\ EndedLeadsToClosed

====
